---- MODULE Spec2Model ----
(***************************************************************************)
(* A model of the network segmenter: Mask, IPAddress (IPv4 and IPv6),      *)
(* Network (IPv4Network and IPv6Network) and the segmentation algorithm.   *)
(* Addresses are sequences of bytes, most significant byte first, indexed  *)
(* from 1 (the C++ index plus one).                                        *)
(***************************************************************************)
EXTENDS Integers, Sequences, FiniteSets, TLC

VARIABLES
    kind,       \* which Network object exists: "none", "IPv4" or "IPv6"
    net,        \* the Network's members _ip, _firstIp, _lastIp, _mask (and _broadcastIp)
    subnets,    \* the Network's _subnets, in list order
    result,     \* how the last call ended: "none", "ok" or "invalid_argument"
    call,       \* the last call and its arguments
    lastOk,     \* the last segment call on this Network that returned, and its _subnets
    leaked,     \* whether children of this Network were dropped without being deleted
    address,    \* the _address of an IPAddress object under arithmetic
    before,     \* that _address before the last operator was applied
    lastOp,     \* the last operator applied to it
    steps,      \* how many operators have been applied to it
    family,     \* the class of that object: "none", "IPv4" or "IPv6"
    operand,    \* the operand of the last operator
    maskObject, \* the members _prefixLength and _maskOctets of a Mask object
    inverse,    \* the Mask the last operator~ returned
    maskCall,   \* the last call on Mask objects and what it was applied to
    input,      \* the text an address object was constructed from
    parsed,     \* how that constructor ended, and the _address it stored
    rendered,   \* what toString() returned for that object
    reparsed,   \* how the constructor ended on the rendered text, and its _address
    textCall,   \* the last of these calls, and the text as it was written
    capacity,   \* the last calculateCapacity call and what it returned
    cli         \* the last run of the program: its arguments, exit and output

vars == <<kind, net, subnets, result, call, lastOk, leaked, address, before, lastOp, steps,
          family, operand, maskObject, inverse, maskCall, input, parsed, rendered, reparsed,
          textCall, capacity, cli>>

netVars == <<kind, net, subnets, result, call, lastOk, leaked>>
addrVars == <<address, before, lastOp, steps, family, operand>>
maskVars == <<maskObject, inverse, maskCall>>
textVars == <<input, parsed, rendered, reparsed, textCall>>
progVars == <<capacity, cli>>

----------------------------------------------------------------------------
(* Bounds of the model *)

\* the largest subnet count for which a child list is built
MaxSubnets == 4

\* how many operators are applied in a row to one address
MaxOps == 3

\* how many of them, the first ones, may be operators that take an operand
MaxOperandOps == 2

----------------------------------------------------------------------------
(* Program constants *)

MASK_MIN_PREFIX == 1
MASK_MAX_PREFIX == 128
IPV4_NUM_OCTETS == 4
IPV6_NUM_HEXTETS == 8
IPV6_NUM_OCTETS == 16

----------------------------------------------------------------------------
(* Machine arithmetic *)

\* x converted to uint8_t
ToUint8(x) == x % 256

\* C++ integer division and remainder (truncation toward zero)
CDiv(x, y) == IF x >= 0 THEN x \div y ELSE (x + y - 1) \div y
CRem(x, y) == x - y * CDiv(x, y)

RECURSIVE BitAnd(_, _, _)
\* a & b on the low n bits: the low half of the bits and the high half
BitAnd(a, b, n) ==
    IF n = 0 THEN 0
    ELSE IF n = 1 THEN (a % 2) * (b % 2)
    ELSE LET h == n \div 2
         IN  BitAnd(a % (2 ^ h), b % (2 ^ h), h)
                 + (2 ^ h) * BitAnd(a \div (2 ^ h), b \div (2 ^ h), n - h)

RECURSIVE BitOr(_, _, _)
\* a | b on the low n bits
BitOr(a, b, n) ==
    IF n = 0 THEN 0
    ELSE IF n = 1 THEN (IF a % 2 = 1 \/ b % 2 = 1 THEN 1 ELSE 0)
    ELSE LET h == n \div 2
         IN  BitOr(a % (2 ^ h), b % (2 ^ h), h)
                 + (2 ^ h) * BitOr(a \div (2 ^ h), b \div (2 ^ h), n - h)

RECURSIVE BitNot(_, _)
\* ~a on the low n bits
BitNot(a, n) ==
    IF n = 0 THEN 0
    ELSE IF n = 1 THEN 1 - (a % 2)
    ELSE LET h == n \div 2
         IN  BitNot(a % (2 ^ h), h) + (2 ^ h) * BitNot(a \div (2 ^ h), n - h)

\* A uint32_t value as two 16-bit halves (hi * 65536 + lo); a 32-bit value
\* does not fit the model checker's integers.
IntToU32(x) == [hi |-> (x \div 65536) % 65536, lo |-> x % 65536]

\* uint32_t to int: values from 2^31 up come out negative
U32ToInt(u) ==
    IF u.hi >= 32768 THEN (u.hi - 65536) * 65536 + u.lo ELSE u.hi * 65536 + u.lo

U32Greater(a, b) == a.hi > b.hi \/ (a.hi = b.hi /\ a.lo > b.lo)

\* a * b in uint32_t
U32Mul(a, b) ==
    LET low == a.lo * b.lo
    IN  [hi |-> (a.hi * b.lo + a.lo * b.hi + low \div 65536) % 65536,
         lo |-> low % 65536]

\* the int 1 << s, for s in 0..31 (s = 31 gives INT_MIN)
ShiftLeftOne(s) == IF s = 31 THEN (-2147483647) - 1 ELSE 2 ^ s

RECURSIVE CeilLog2(_)
\* ceil(log2(n)) for n >= 1
CeilLog2(n) == IF n <= 1 THEN 0 ELSE 1 + CeilLog2((n + 1) \div 2)

----------------------------------------------------------------------------
(* Mask *)

isValidPrefixLength(prefixLength) ==
    prefixLength >= MASK_MIN_PREFIX /\ prefixLength <= MASK_MAX_PREFIX

\* a variant that stores 255 for the remaining bits of the prefix as well
setMaskOctetsWhole(prefixLength) ==
    IF prefixLength <= 0 THEN <<>>
    ELSE [i \in 1..(prefixLength \div 8) |-> 255]
             \o (IF prefixLength % 8 = 0 THEN <<>> ELSE <<255>>)

\* the octets of a mask of the given prefix length: the loop stores 255 once
\* for every 8 bits of the prefix, then the octet of the bits that remain
setMaskOctets(prefixLength) ==
    IF prefixLength <= 0 THEN <<>>
    ELSE [i \in 1..(prefixLength \div 8) |-> 255]
             \o (IF prefixLength % 8 = 0 THEN <<>>
                 ELSE <<ToUint8(255 * 2 ^ (8 - (prefixLength % 8)))>>)

\* Mask(): the default constructor
DefaultMask == [prefixLength |-> MASK_MIN_PREFIX, maskOctets |-> <<>>]

\* Mask(prefixLength): throws invalid_argument on an invalid prefix length
MaskCtor(prefixLength) ==
    IF ~isValidPrefixLength(prefixLength)
    THEN [thrown |-> TRUE, mask |-> DefaultMask]
    ELSE [thrown |-> FALSE,
          mask |-> [prefixLength |-> prefixLength,
                    maskOctets |-> setMaskOctets(prefixLength)]]

\* a variant that leaves the first bit of every octet as it is
MaskNotLow(mask) ==
    [prefixLength |-> mask.prefixLength,
     maskOctets |-> [i \in 1..Len(mask.maskOctets) |->
                        128 * (mask.maskOctets[i] \div 128) + BitNot(mask.maskOctets[i] % 128, 7)]]

\* operator~ : a copy with every octet inverted
MaskNot(mask) ==
    [prefixLength |-> mask.prefixLength,
     maskOctets |-> [i \in 1..Len(mask.maskOctets) |-> BitNot(mask.maskOctets[i], 8)]]

----------------------------------------------------------------------------
(* IPAddress *)

RECURSIVE IncrementFrom(_, _)
IncrementFrom(a, i) ==
    IF i = 0 THEN a
    ELSE IF a[i] # 255 THEN [a EXCEPT ![i] = a[i] + 1]
    ELSE IncrementFrom(a, i - 1)

\* operator++
PreIncrement(a) == IncrementFrom(a, Len(a))

RECURSIVE DecrementFrom(_, _)
DecrementFrom(a, i) ==
    IF i = 0 THEN a
    ELSE IF a[i] # 0 THEN [a EXCEPT ![i] = a[i] - 1]
    ELSE DecrementFrom(a, i - 1)

\* operator--
PreDecrement(a) == DecrementFrom(a, Len(a))

\* what int sum = (*it) + carry leaves in the octet and in carry. The sum of
\* an octet and a carry above INT_MAX - octet overflows int, which is undefined:
\* ov = "wrap" is the build that wraps the sum to 32 bits, ov = "wide" the
\* build that keeps the exact sum.
AddIntStep(octet, carry, ov) ==
    IF carry > 2147483647 - octet
    THEN IF ov = "wrap"
         THEN LET sum == (((carry - 2147483647) + (octet - 1)) - 2147483647) - 1
              IN  [octet |-> ToUint8(CRem(sum, 256)), carry |-> CDiv(sum, 256)]
         ELSE LET low == octet + (carry % 256)
              IN  [octet |-> low % 256, carry |-> (carry \div 256) + (low \div 256)]
    ELSE LET sum == octet + carry
         IN  [octet |-> ToUint8(CRem(sum, 256)), carry |-> CDiv(sum, 256)]

RECURSIVE AddIntFrom(_, _, _, _)
AddIntFrom(a, i, carry, ov) ==
    IF i = 0 \/ carry = 0 THEN a
    ELSE LET s == AddIntStep(a[i], carry, ov)
         IN  AddIntFrom([a EXCEPT ![i] = s.octet], i - 1, s.carry, ov)

\* operator+=(int)
AddInt(a, increment, ov) == AddIntFrom(a, Len(a), increment, ov)

RECURSIVE SubIntFrom(_, _, _)
SubIntFrom(a, i, borrow) ==
    IF i = 0 \/ borrow = 0 THEN a
    ELSE LET difference == a[i] - borrow
         IN  SubIntFrom([a EXCEPT ![i] = ToUint8(CRem(difference, 256))],
                        i - 1, CDiv(difference, 256))

\* operator-=(int)
SubInt(a, decrement) == SubIntFrom(a, Len(a), decrement)

\* a variant that leaves the octets past the end of the mask as they are
AndMaskKeep(a, mask) ==
    [i \in 1..Len(a) |->
        IF i <= Len(mask.maskOctets) THEN BitAnd(a[i], mask.maskOctets[i], 8) ELSE a[i]]

\* operator&=(const Mask&)
AndMask(a, mask) ==
    [i \in 1..Len(a) |->
        IF i <= Len(mask.maskOctets) THEN BitAnd(a[i], mask.maskOctets[i], 8) ELSE 0]

\* a variant that clears the octets past the end of the mask, as &= does
OrMaskClear(a, mask) ==
    [i \in 1..Len(a) |->
        IF i <= Len(mask.maskOctets) THEN BitOr(a[i], mask.maskOctets[i], 8) ELSE 0]

\* operator|=(const Mask&)
OrMask(a, mask) ==
    [i \in 1..Len(a) |->
        IF i <= Len(mask.maskOctets) THEN BitOr(a[i], mask.maskOctets[i], 8) ELSE 255]

\* a variant with the IPv6 upper limit
IPv4isPrefixLengthCompatibleWide(prefixLength) == prefixLength >= 1 /\ prefixLength <= 128

IPv4isPrefixLengthCompatible(prefixLength) == prefixLength >= 1 /\ prefixLength <= 32

IPv6isPrefixLengthCompatible(prefixLength) == prefixLength >= 1 /\ prefixLength <= 128

\* a variant that shifts for a prefix length of 32 as well
calculateCapacityShiftAt32(prefixLength) ==
    IF prefixLength > 32 THEN IntToU32(65536)
    ELSE IntToU32(ShiftLeftOne(32 - prefixLength))

\* calculateCapacity, a uint32_t (called with prefix lengths from 1 up)
calculateCapacity(prefixLength) ==
    IF prefixLength >= 32 THEN IntToU32(65536)
    ELSE IntToU32(ShiftLeftOne(32 - prefixLength))

RECURSIVE AddVectorLoop(_, _, _, _, _)
\* the loop of IPv6Address::operator+=(vector): ai and ii count the bytes of
\* the address and of the increment not yet visited; the carry is read first,
\* so every pass of the loop is worked out before the next one starts
AddVectorLoop(a, ai, increment, ii, carry) ==
    IF carry = 0 /\ ii = 0 THEN a
    ELSE LET s1 == IF ii > 0 THEN carry + increment[ii] ELSE carry
             ii2 == IF ii > 0 THEN ii - 1 ELSE 0
             sum == IF ai > 0 THEN s1 + a[ai] ELSE s1
             a2 == IF ai > 0 THEN [a EXCEPT ![ai] = sum % 256]
                   ELSE <<sum % 256>> \o a
             ai2 == IF ai > 0 THEN ai - 1 ELSE 0
         IN  AddVectorLoop(a2, ai2, increment, ii2, sum \div 256)

\* a variant that lines a shorter increment up with the first octets of the address
AddVectorFromFront(a, increment) ==
    AddVectorLoop(a, Len(a), increment \o [i \in 1..(Len(a) - Len(increment)) |-> 0], Len(a), 0)

\* IPv6Address::operator+=(const vector<uint8_t>&)
AddVector(a, increment) == AddVectorLoop(a, Len(a), increment, Len(increment), 0)

----------------------------------------------------------------------------
(* Texts: a character is a string of length one, a text a sequence of characters *)

DecimalDigits == <<"0", "1", "2", "3", "4", "5", "6", "7", "8", "9">>
LowerHexDigits == DecimalDigits \o <<"a", "b", "c", "d", "e", "f">>
UpperHexDigits == DecimalDigits \o <<"A", "B", "C", "D", "E", "F">>

isdigit(c) == \E d \in 1..10 : DecimalDigits[d] = c

isxdigit(c) == \E d \in 1..16 : LowerHexDigits[d] = c \/ UpperHexDigits[d] = c

\* the value of a decimal or hexadecimal digit
DigitValue(c) == (CHOOSE d \in 1..16 : LowerHexDigits[d] = c \/ UpperHexDigits[d] = c) - 1

\* string::find(delimiter, start): the first position from start on where
\* delimiter occurs, 0 (npos) when there is none; positions count from 1
Find(s, delimiter, start) ==
    LET hits == {e \in start..(Len(s) - Len(delimiter) + 1) :
                    SubSeq(s, e, e + Len(delimiter) - 1) = delimiter}
    IN  IF hits = {} THEN 0 ELSE CHOOSE e \in hits : \A f \in hits : e <= f

RECURSIVE SplitFrom(_, _, _)
SplitFrom(s, delimiter, start) ==
    LET end == Find(s, delimiter, start)
    IN  IF end = 0 THEN <<SubSeq(s, start, Len(s))>>
        ELSE <<SubSeq(s, start, end - 1)>> \o SplitFrom(s, delimiter, end + Len(delimiter))

\* split(s, delimiter) of utils
split(s, delimiter) == SplitFrom(s, delimiter, 1)

RECURSIVE StoiFrom(_, _, _, _)
StoiFrom(str, i, base, acc) ==
    IF i > Len(str) THEN [thrown |-> "none", value |-> acc]
    ELSE LET d == DigitValue(str[i])
         IN  IF acc > (2147483647 - d) \div base
             THEN [thrown |-> "out_of_range", value |-> 0]
             ELSE StoiFrom(str, i + 1, base, acc * base + d)

\* std::stoi(str, nullptr, base) on a non-empty text of digits of the base (the
\* callers test that first): the value, or out_of_range when it exceeds INT_MAX
stoi(str, base) == StoiFrom(str, 1, base, 0)

RECURSIVE IPv4SetOctets(_, _, _)
\* the loop of IPv4Address::setAddress from octet i on
IPv4SetOctets(octets, i, a) ==
    IF i > IPV4_NUM_OCTETS THEN [result |-> "ok", address |-> a]
    ELSE LET octet == octets[i]
         IN  IF Len(octet) = 0 \/ \E k \in 1..Len(octet) : ~isdigit(octet[k])
             THEN [result |-> "invalid_argument", address |-> <<>>]
             ELSE LET octetValue == stoi(octet, 10)
                  IN  IF octetValue.thrown # "none"
                      THEN [result |-> octetValue.thrown, address |-> <<>>]
                      ELSE IF octetValue.value < 0 \/ octetValue.value > 255
                      THEN [result |-> "invalid_argument", address |-> <<>>]
                      ELSE IPv4SetOctets(octets, i + 1,
                                         [a EXCEPT ![i] = ToUint8(octetValue.value)])

\* IPv4Address(text): the constructor with setAddress; an exception leaves no
\* object, and the constructor lets every exception through
IPv4setAddress(text) ==
    LET octets == split(text, <<".">>)
    IN  IF Len(octets) # IPV4_NUM_OCTETS
        THEN [result |-> "invalid_argument", address |-> <<>>]
        ELSE IPv4SetOctets(octets, 1, [i \in 1..IPV4_NUM_OCTETS |-> 0])

RECURSIVE ToDecimal(_)
\* operator<<(int) for a value from 0 up
ToDecimal(n) ==
    IF n < 10 THEN <<DecimalDigits[n + 1]>>
    ELSE ToDecimal(n \div 10) \o <<DecimalDigits[(n % 10) + 1]>>

RECURSIVE IPv4PrintFrom(_, _)
\* a variant that prints a period after the last octet as well
IPv4PrintFromDotted(a, i) ==
    IF i > Len(a) THEN <<>>
    ELSE ToDecimal(a[i]) \o <<".">> \o IPv4PrintFrom(a, i + 1)

\* the loop of IPv4Address::print from octet i on
IPv4PrintFrom(a, i) ==
    IF i > Len(a) THEN <<>>
    ELSE ToDecimal(a[i]) \o (IF i # Len(a) THEN <<".">> ELSE <<>>) \o IPv4PrintFrom(a, i + 1)

\* IPv4Address::print
IPv4print(a) == IPv4PrintFrom(a, 1)

\* vector::resize(n, fill)
Resize(h, n, fill) ==
    IF n <= Len(h) THEN SubSeq(h, 1, n) ELSE h \o [i \in 1..(n - Len(h)) |-> fill]

\* the hextets IPv6Address::setAddress takes from the text. With more than 8
\* groups on the right the size_t IPV6_NUM_HEXTETS - rightPart.size() wraps to
\* a count above max_size() and resize throws length_error
IPv6Hextets(text) ==
    IF Find(text, <<":", ":">>, 1) # 0
    THEN LET parts == split(text, <<":", ":">>)
             leftPart == IF Len(parts[1]) = 0 THEN <<>> ELSE split(parts[1], <<":">>)
             rightPart == IF Len(parts[2]) = 0 THEN <<>> ELSE split(parts[2], <<":">>)
         IN  IF Len(rightPart) > IPV6_NUM_HEXTETS
             THEN [thrown |-> "length_error", hextets |-> <<>>]
             ELSE [thrown |-> "none",
                   hextets |-> Resize(leftPart, IPV6_NUM_HEXTETS - Len(rightPart), <<"0">>)
                                   \o rightPart]
    ELSE [thrown |-> "none", hextets |-> split(text, <<":">>)]

RECURSIVE IPv6SetHextets(_, _, _)
\* the loop of IPv6Address::setAddress from hextet i on
IPv6SetHextets(hextets, i, a) ==
    IF i > IPV6_NUM_HEXTETS THEN [result |-> "ok", address |-> a]
    ELSE LET hextet == hextets[i]
         IN  IF Len(hextet) = 0 \/ \E k \in 1..Len(hextet) : ~isxdigit(hextet[k])
             THEN [result |-> "invalid_argument", address |-> <<>>]
             ELSE LET hextetValue == stoi(hextet, 16)
                  IN  IF hextetValue.thrown # "none"
                      THEN [result |-> hextetValue.thrown, address |-> <<>>]
                      ELSE IF hextetValue.value < 0 \/ hextetValue.value > 65535
                      THEN [result |-> "invalid_argument", address |-> <<>>]
                      ELSE IPv6SetHextets(hextets, i + 1,
                               [a EXCEPT ![2 * i - 1] = ToUint8(hextetValue.value \div 256),
                                         ![2 * i] = BitAnd(hextetValue.value, 255, 16)])

\* IPv6Address(text): the constructor with setAddress; an exception leaves no
\* object, and the constructor lets every exception through
IPv6setAddress(text) ==
    LET h == IPv6Hextets(text)
    IN  IF h.thrown # "none" THEN [result |-> h.thrown, address |-> <<>>]
        ELSE IF Len(h.hextets) # IPV6_NUM_HEXTETS
        THEN [result |-> "invalid_argument", address |-> <<>>]
        ELSE IPv6SetHextets(h.hextets, 1, [i \in 1..IPV6_NUM_OCTETS |-> 0])

\* IPv6Address::operator[](index): the hextet of that index, counted from 0
Hextet(a, index) == BitOr(a[2 * index + 1] * 256, a[2 * index + 2], 16)

\* s << hex << n: lowercase hexadecimal digits, no leading zeros
RECURSIVE ToHex(_)
ToHex(n) ==
    IF n < 16 THEN <<LowerHexDigits[n + 1]>>
    ELSE ToHex(n \div 16) \o <<LowerHexDigits[(n % 16) + 1]>>

\* a variant that also takes a sequence as long as the longest so far
UpdateLongestOrEqual(z) ==
    IF z.currentLength >= z.longestLength
    THEN [z EXCEPT !.longestStart = z.currentStart, !.longestLength = z.currentLength]
    ELSE z

\* findLongestZeroSequence: the test whether the current sequence is the longest
UpdateLongest(z) ==
    IF z.currentLength > z.longestLength
    THEN [z EXCEPT !.longestStart = z.currentStart, !.longestLength = z.currentLength]
    ELSE z

\* the loop of findLongestZeroSequence from hextet i on
RECURSIVE ZeroScan(_, _, _)
ZeroScan(a, i, z) ==
    IF i >= IPV6_NUM_HEXTETS THEN z
    ELSE IF Hextet(a, i) = 0
    THEN ZeroScan(a, i + 1,
                  [z EXCEPT !.currentStart = IF z.currentStart = -1 THEN i ELSE z.currentStart,
                            !.currentLength = z.currentLength + 1])
    ELSE ZeroScan(a, i + 1,
                  [UpdateLongest(z) EXCEPT !.currentStart = -1, !.currentLength = 0])

\* IPv6Address::findLongestZeroSequence: the pair (start, end), (-1, -1) when
\* no hextet is zero
findLongestZeroSequence(a) ==
    LET z == UpdateLongest(ZeroScan(a, 0, [longestStart |-> -1, longestLength |-> 0,
                                           currentStart |-> -1, currentLength |-> 0]))
    IN  IF z.longestStart = -1 THEN [first |-> -1, second |-> -1]
        ELSE [first |-> z.longestStart, second |-> z.longestStart + z.longestLength - 1]

\* the loop of IPv6Address::print from hextet i on
RECURSIVE IPv6PrintFrom(_, _, _, _)
IPv6PrintFrom(a, i, start, end) ==
    IF i >= IPV6_NUM_HEXTETS THEN <<>>
    ELSE (IF i = start THEN <<":">> ELSE <<>>)
         \o (IF i >= start /\ i <= end THEN <<>>
             ELSE ToHex(Hextet(a, i))
                  \o (IF i < IPV6_NUM_HEXTETS - 1 /\ i # end THEN <<":">> ELSE <<>>))
         \o IPv6PrintFrom(a, i + 1, start, end)

\* IPv6Address::print, which toString() returns
IPv6print(a) ==
    LET longestZeroSequence == findLongestZeroSequence(a)
    IN  IPv6PrintFrom(a, 0, longestZeroSequence.first, longestZeroSequence.second)

----------------------------------------------------------------------------
(* Network *)

\* the members of a Network before its constructor has run
NoNetwork == [ip |-> <<>>, firstIp |-> <<>>, lastIp |-> <<>>, mask |-> DefaultMask]

\* Network::Network(ip, prefixLength); compatible is ip.isPrefixLengthCompatible(prefixLength)
NetworkCtor(ip, prefixLength, compatible) ==
    IF ~compatible THEN [thrown |-> TRUE, net |-> NoNetwork]
    ELSE LET m == MaskCtor(prefixLength)
             base == AndMask(ip, m.mask)
         IN  IF m.thrown THEN [thrown |-> TRUE, net |-> NoNetwork]
             ELSE [thrown |-> FALSE,
                   net |-> [ip |-> base,
                            firstIp |-> PreIncrement(base),
                            lastIp |-> OrMask(base, MaskNot(m.mask)),
                            mask |-> m.mask]]

\* IPv6Network::IPv6Network(ip, prefixLength)
IPv6NetworkCtor(ip, prefixLength) ==
    NetworkCtor(ip, prefixLength, IPv6isPrefixLengthCompatible(prefixLength))

\* a variant that takes the broadcast address after the decrement
IPv4NetworkCtorLate(ip, prefixLength) ==
    LET b == NetworkCtor(ip, prefixLength, IPv4isPrefixLengthCompatible(prefixLength))
    IN  IF b.thrown THEN b
        ELSE [thrown |-> FALSE,
              net |-> [ip |-> b.net.ip,
                       firstIp |-> b.net.firstIp,
                       lastIp |-> PreDecrement(b.net.lastIp),
                       mask |-> b.net.mask,
                       broadcastIp |-> PreDecrement(b.net.lastIp)]]

\* IPv4Network::IPv4Network(ip, prefixLength)
IPv4NetworkCtor(ip, prefixLength) ==
    LET b == NetworkCtor(ip, prefixLength, IPv4isPrefixLengthCompatible(prefixLength))
    IN  IF b.thrown THEN b
        ELSE [thrown |-> FALSE,
              net |-> [ip |-> b.net.ip,
                       firstIp |-> b.net.firstIp,
                       lastIp |-> PreDecrement(b.net.lastIp),
                       mask |-> b.net.mask,
                       broadcastIp |-> b.net.lastIp]]

getPrefixLength(network) == network.mask.prefixLength

RECURSIVE FloorLog2(_)
FloorLog2(n) == IF n <= 1 THEN 0 ELSE 1 + FloorLog2(n \div 2)

\* a variant that rounds the logarithm down
NewPrefixLengthFloor(prefixLength, numberOfSubnets) == prefixLength + FloorLog2(numberOfSubnets)

\* newPrefixLength in segment: getPrefixLength() + ceil(log2(numberOfSubnets))
NewPrefixLength(prefixLength, numberOfSubnets) == prefixLength + CeilLog2(numberOfSubnets)

\* a variant that counts the children from 1
IPv4OffsetFromOne(newPrefixLength, i) ==
    U32ToInt(U32Mul(IntToU32(ShiftLeftOne(32 - newPrefixLength)), IntToU32(i + 1)))

\* the argument of newAddress += increment * i in IPv4Network::segment
IPv4Offset(newPrefixLength, i) ==
    U32ToInt(U32Mul(IntToU32(ShiftLeftOne(32 - newPrefixLength)), IntToU32(i)))

\* the children IPv4Network::segment builds, i running from 0
IPv4Children(network, numberOfSubnets, newPrefixLength) ==
    [k \in 1..numberOfSubnets |->
        IPv4NetworkCtor(AddInt(network.ip, IPv4Offset(newPrefixLength, k - 1), "wrap"),
                        newPrefixLength).net]

\* a variant that also rejects a subnet count equal to the capacity
IPv4SegmentThrowsAtCapacity(network, numberOfSubnets) ==
    IF numberOfSubnets < 1 THEN TRUE
    ELSE IF ~U32Greater(calculateCapacity(getPrefixLength(network)), IntToU32(numberOfSubnets))
    THEN TRUE
    ELSE NewPrefixLength(getPrefixLength(network), numberOfSubnets) > 32

\* IPv4Network::segment: whether one of its three checks throws invalid_argument
IPv4SegmentThrows(network, numberOfSubnets) ==
    IF numberOfSubnets < 1 THEN TRUE
    ELSE IF U32Greater(IntToU32(numberOfSubnets), calculateCapacity(getPrefixLength(network)))
    THEN TRUE
    ELSE NewPrefixLength(getPrefixLength(network), numberOfSubnets) > 32

\* a variant that keeps the children of the call before in the list
IPv4SegmentKeepsOld(network, old, numberOfSubnets) ==
    IF IPv4SegmentThrows(network, numberOfSubnets) THEN [thrown |-> TRUE, subnets |-> old]
    ELSE [thrown |-> FALSE,
          subnets |-> old \o IPv4Children(network, numberOfSubnets,
                                          NewPrefixLength(getPrefixLength(network), numberOfSubnets))]

\* IPv4Network::segment: the outcome and the new _subnets
IPv4Segment(network, old, numberOfSubnets) ==
    IF IPv4SegmentThrows(network, numberOfSubnets) THEN [thrown |-> TRUE, subnets |-> old]
    ELSE [thrown |-> FALSE,
          subnets |-> IPv4Children(network, numberOfSubnets,
                                   NewPrefixLength(getPrefixLength(network), numberOfSubnets))]

\* a variant that counts the bits for subnets in hextets of 16 bits
IPv6IncrementInHextets(newPrefixLength) ==
    LET bitsForSubnets == 128 - newPrefixLength
    IN  [k \in 1..IPV6_NUM_OCTETS |->
            IF k = 16 - (bitsForSubnets \div 16)
            THEN ToUint8(2 ^ (bitsForSubnets % 16))
            ELSE 0]

\* the increment vector of IPv6Network::segment
IPv6Increment(newPrefixLength) ==
    LET bitsForSubnets == 128 - newPrefixLength
    IN  [k \in 1..IPV6_NUM_OCTETS |->
            IF k = 16 - (bitsForSubnets \div IPV6_NUM_HEXTETS)
            THEN ToUint8(2 ^ (bitsForSubnets % IPV6_NUM_HEXTETS))
            ELSE 0]

RECURSIVE AddVectorTimes(_, _, _)
\* newAddress += increment, j times
AddVectorTimes(a, increment, j) ==
    IF j = 0 THEN a ELSE AddVector(AddVectorTimes(a, increment, j - 1), increment)

\* the children IPv6Network::segment builds, i running from 0
IPv6Children(network, numberOfSubnets, newPrefixLength) ==
    [k \in 1..numberOfSubnets |->
        IPv6NetworkCtor(AddVectorTimes(network.ip, IPv6Increment(newPrefixLength), k - 1),
                        newPrefixLength).net]

\* IPv6Network::segment: whether one of its three checks throws invalid_argument
IPv6SegmentThrows(network, numberOfSubnets) ==
    IF numberOfSubnets < 1 THEN TRUE
    ELSE IF U32Greater(IntToU32(numberOfSubnets), calculateCapacity(getPrefixLength(network)))
    THEN TRUE
    ELSE NewPrefixLength(getPrefixLength(network), numberOfSubnets) > 128

\* a variant that clears the list before the checks
IPv6SegmentClearsFirst(network, old, numberOfSubnets) ==
    IF IPv6SegmentThrows(network, numberOfSubnets) THEN [thrown |-> TRUE, subnets |-> <<>>]
    ELSE [thrown |-> FALSE,
          subnets |-> IPv6Children(network, numberOfSubnets,
                                   NewPrefixLength(getPrefixLength(network), numberOfSubnets))]

\* IPv6Network::segment: the outcome and the new _subnets
IPv6Segment(network, old, numberOfSubnets) ==
    IF IPv6SegmentThrows(network, numberOfSubnets) THEN [thrown |-> TRUE, subnets |-> old]
    ELSE [thrown |-> FALSE,
          subnets |-> IPv6Children(network, numberOfSubnets,
                                   NewPrefixLength(getPrefixLength(network), numberOfSubnets))]

----------------------------------------------------------------------------
(* The program *)

\* isspace, for the characters the texts of the model hold
isspace(c) == c = " "

\* a text without its leading whitespace
RECURSIVE SkipSpaces(_)
SkipSpaces(str) == IF Len(str) > 0 /\ isspace(str[1]) THEN SkipSpaces(Tail(str)) ELSE str

\* a text of digits without its leading zeros
RECURSIVE SkipZeros(_)
SkipZeros(str) == IF Len(str) > 1 /\ str[1] = "0" THEN SkipZeros(Tail(str)) ELSE str

\* std::stoi(str) as main calls it, on any text: whitespace is skipped, a
\* sign is read, then the decimal digits up to the first other character;
\* invalid_argument when there is no digit, out_of_range outside int
stoiText(str) ==
    LET unspaced == SkipSpaces(str)
        signed == Len(unspaced) > 0 /\ unspaced[1] \in {"+", "-"}
        negative == signed /\ unspaced[1] = "-"
        rest == IF signed THEN Tail(unspaced) ELSE unspaced
        count == CHOOSE k \in 0..Len(rest) :
                    /\ \A i \in 1..k : isdigit(rest[i])
                    /\ k = Len(rest) \/ ~isdigit(rest[k + 1])
        digits == SubSeq(rest, 1, count)
    IN  IF count = 0 THEN [thrown |-> "invalid_argument", value |-> 0]
        ELSE IF negative /\ SkipZeros(digits) = <<"2", "1", "4", "7", "4", "8", "3", "6", "4", "8">>
        THEN [thrown |-> "none", value |-> (-2147483647) - 1]
        ELSE IF stoi(digits, 10).thrown # "none" THEN [thrown |-> "out_of_range", value |-> 0]
        ELSE [thrown |-> "none",
              value |-> IF negative THEN 0 - stoi(digits, 10).value ELSE stoi(digits, 10).value]

\* how main ends: the exit ("exit 0", "exit 1", or "SIGABRT" when an
\* exception leaves main and std::terminate aborts the process), whether the
\* report was written to cout, and the lines main wrote to cerr
Ended(status, report, diagnostics) ==
    [status |-> status, report |-> report, diagnostics |-> diagnostics]

\* the try block of main for an IPv6 address
MainIPv6(tokens, numSubnets) ==
    LET ip == IPv6setAddress(tokens[1])
        prefixLength == stoiText(tokens[2])
    IN  IF ip.result # "ok" THEN Ended("exit 1", FALSE, 1)
        ELSE IF prefixLength.thrown # "none" THEN Ended("exit 1", FALSE, 1)
        ELSE IF IPv6NetworkCtor(ip.address, prefixLength.value).thrown
        THEN Ended("exit 1", FALSE, 1)
        ELSE IF IPv6SegmentThrows(IPv6NetworkCtor(ip.address, prefixLength.value).net, numSubnets)
        THEN Ended("exit 1", FALSE, 1)
        ELSE Ended("exit 0", TRUE, 0)

\* the try block of main for an IPv4 address
MainIPv4(tokens, numSubnets) ==
    LET ip == IPv4setAddress(tokens[1])
        prefixLength == stoiText(tokens[2])
    IN  IF ip.result # "ok" THEN Ended("exit 1", FALSE, 1)
        ELSE IF prefixLength.thrown # "none" THEN Ended("exit 1", FALSE, 1)
        ELSE IF IPv4NetworkCtor(ip.address, prefixLength.value).thrown
        THEN Ended("exit 1", FALSE, 1)
        ELSE IF IPv4SegmentThrows(IPv4NetworkCtor(ip.address, prefixLength.value).net, numSubnets)
        THEN Ended("exit 1", FALSE, 1)
        ELSE Ended("exit 0", TRUE, 0)

\* main(argc, argv): args are argv[1] and on, so argc = Len(args) + 1
main(args) ==
    IF Len(args) + 1 < 3 THEN Ended("exit 1", FALSE, 1)
    ELSE LET tokens == split(args[1], <<"/">>)
             numSubnets == stoiText(args[2])
         IN  IF numSubnets.thrown # "none" THEN Ended("SIGABRT", FALSE, 0)
             ELSE IF Len(tokens) # 2 THEN Ended("exit 1", FALSE, 1)
             ELSE IF \E i \in 1..Len(tokens[1]) : tokens[1][i] = ":"
             THEN MainIPv6(tokens, numSubnets.value)
             ELSE MainIPv4(tokens, numSubnets.value)

----------------------------------------------------------------------------
(* Inputs *)

\* byte values the IPv4 inputs of construction are made of
ByteSamples == {0, 165, 255}

\* addresses handed to the constructors
IPv4Inputs ==
    {<<a, b, c, d>> : a \in ByteSamples, b \in ByteSamples, c \in ByteSamples, d \in ByteSamples}
        \cup {<<1, 2, 3, 4>>, <<192, 168, 1, 254>>}

IPv6Inputs ==
    { [k \in 1..16 |-> 0],
      [k \in 1..16 |-> 255],
      [k \in 1..16 |-> 165],
      [k \in 1..16 |-> IF k % 2 = 0 THEN 255 ELSE 90],
      [k \in 1..16 |-> IF k = 16 THEN 254 ELSE 255],
      <<32, 1, 13, 184, 133, 163, 0, 0, 0, 0, 138, 46, 3, 112, 115, 52>> }

\* addresses of the networks that are segmented
IPv4SegmentInputs ==
    { <<1, 2, 3, 4>>,
      <<255, 255, 255, 255>>,
      <<165, 90, 165, 90>>,
      <<192, 168, 255, 255>> }

IPv6SegmentInputs ==
    { [k \in 1..16 |-> 255],
      <<32, 1, 13, 184, 133, 163, 0, 0, 0, 0, 138, 46, 3, 112, 115, 52>> }

IPv4PrefixInputs == (-1)..34 \cup {128, 129}

IPv6PrefixInputs == (-1)..130

\* the capacity as a plain integer, where it is one
CapacityInt(prefixLength) == U32ToInt(calculateCapacity(prefixLength))

\* subnet counts tried on a network of the given prefix length
SubnetCounts(prefixLength) ==
    {0, 1, 2, 3, MaxSubnets}
        \cup {n \in {CapacityInt(prefixLength), CapacityInt(prefixLength) + 1} : n >= 0}

----------------------------------------------------------------------------
(* The life of a Network: construction, segmentation, destruction *)

NoCall == [op |-> "none", a |-> <<>>, p |-> 0, n |-> 0]

\* no operand: the integer, the byte vector and the Mask an operator may take
NoOperand == [k |-> 0, v |-> <<>>, mask |-> DefaultMask]

\* no call on a Mask yet: the call, its argument, whether it threw, how many
\* times operator~ was applied in a row, and the Mask object before the call
NoMaskCall == [op |-> "none", p |-> 0, thrown |-> FALSE, depth |-> 0, m |-> DefaultMask]

\* no address constructed from a text yet
NoParse == [result |-> "none", address |-> <<>>]

\* no call yet: the call, the class, whether the text was written with "::",
\* the groups written (left and right of "::" when there is one), how many
\* "::" the text has and the groups written after the second one
NoTextCall == [op |-> "none", family |-> "none", compressed |-> FALSE,
               parts |-> <<>>, right |-> <<>>, tokens |-> 0, rest |-> <<>>]

\* no segment call has returned yet
NoSegment == [n |-> 0, newPrefixLength |-> 0, subnets |-> <<>>]

\* calculateCapacity not called yet
NoCapacity == [family |-> "none", prefixLength |-> 0, value |-> IntToU32(0)]

\* the program not run yet
NoRun == [args |-> <<>>, status |-> "none", report |-> FALSE, diagnostics |-> 0]

Init ==
    /\ kind = "none"
    /\ net = NoNetwork
    /\ subnets = <<>>
    /\ result = "none"
    /\ call = NoCall
    /\ lastOk = NoSegment
    /\ leaked = FALSE
    /\ address = <<>>
    /\ before = <<>>
    /\ lastOp = "none"
    /\ steps = 0
    /\ family = "none"
    /\ operand = NoOperand
    /\ maskObject = DefaultMask
    /\ inverse = DefaultMask
    /\ maskCall = NoMaskCall
    /\ input = <<>>
    /\ parsed = NoParse
    /\ rendered = <<>>
    /\ reparsed = NoParse
    /\ textCall = NoTextCall
    /\ capacity = NoCapacity
    /\ cli = NoRun

ConstructIPv4(inputs) ==
    /\ kind = "none"
    /\ result = "none"
    /\ \E a \in inputs, p \in IPv4PrefixInputs :
         LET r == IPv4NetworkCtor(a, p)
         IN  /\ kind' = IF r.thrown THEN "none" ELSE "IPv4"
             /\ net' = r.net
             /\ subnets' = <<>>
             /\ result' = IF r.thrown THEN "invalid_argument" ELSE "ok"
             /\ call' = [op |-> "construct4", a |-> a, p |-> p, n |-> 0]
    /\ lastOk' = NoSegment
    /\ leaked' = FALSE
    /\ UNCHANGED <<addrVars, maskVars, textVars, progVars>>

ConstructIPv6(inputs) ==
    /\ kind = "none"
    /\ result = "none"
    /\ \E a \in inputs, p \in IPv6PrefixInputs :
         LET r == IPv6NetworkCtor(a, p)
         IN  /\ kind' = IF r.thrown THEN "none" ELSE "IPv6"
             /\ net' = r.net
             /\ subnets' = <<>>
             /\ result' = IF r.thrown THEN "invalid_argument" ELSE "ok"
             /\ call' = [op |-> "construct6", a |-> a, p |-> p, n |-> 0]
    /\ lastOk' = NoSegment
    /\ leaked' = FALSE
    /\ UNCHANGED <<addrVars, maskVars, textVars, progVars>>

SegmentIPv4 ==
    /\ kind = "IPv4"
    /\ \E n \in SubnetCounts(getPrefixLength(net)) :
         /\ n <= MaxSubnets \/ IPv4SegmentThrows(net, n)
         /\ LET thrown == IPv4SegmentThrows(net, n)
            IN  /\ subnets' = IPv4Segment(net, subnets, n).subnets
                /\ result' = IF thrown THEN "invalid_argument" ELSE "ok"
                /\ call' = [op |-> "segment", a |-> <<>>, p |-> getPrefixLength(net), n |-> n]
                /\ lastOk' = IF thrown THEN lastOk
                             ELSE [n |-> n,
                                   newPrefixLength |-> NewPrefixLength(getPrefixLength(net), n),
                                   subnets |-> subnets']
                \* _subnets.clear() removes the pointers and deletes no child
                /\ leaked' = (leaked \/ (~thrown /\ Len(subnets) > 0))
    /\ UNCHANGED <<kind, net>>
    /\ UNCHANGED <<addrVars, maskVars, textVars, progVars>>

SegmentIPv6 ==
    /\ kind = "IPv6"
    /\ \E n \in SubnetCounts(getPrefixLength(net)) :
         /\ n <= MaxSubnets \/ IPv6SegmentThrows(net, n)
         /\ LET thrown == IPv6SegmentThrows(net, n)
            IN  /\ subnets' = IPv6Segment(net, subnets, n).subnets
                /\ result' = IF thrown THEN "invalid_argument" ELSE "ok"
                /\ call' = [op |-> "segment", a |-> <<>>, p |-> getPrefixLength(net), n |-> n]
                /\ lastOk' = IF thrown THEN lastOk
                             ELSE [n |-> n,
                                   newPrefixLength |-> NewPrefixLength(getPrefixLength(net), n),
                                   subnets |-> subnets']
                \* _subnets.clear() removes the pointers and deletes no child
                /\ leaked' = (leaked \/ (~thrown /\ Len(subnets) > 0))
    /\ UNCHANGED <<kind, net>>
    /\ UNCHANGED <<addrVars, maskVars, textVars, progVars>>

\* Network::~Network: deletes the members and the children _subnets holds
Destroy ==
    /\ kind # "none"
    /\ kind' = "none"
    /\ net' = NoNetwork
    /\ subnets' = <<>>
    /\ result' = "none"
    /\ call' = NoCall
    /\ lastOk' = NoSegment
    /\ UNCHANGED leaked
    /\ UNCHANGED <<addrVars, maskVars, textVars, progVars>>

Next ==
    \/ ConstructIPv4(IPv4SegmentInputs)
    \/ ConstructIPv6(IPv6SegmentInputs)
    \/ SegmentIPv4
    \/ SegmentIPv6
    \/ Destroy

Spec == Init /\ [][Next]_vars

\* construction alone, over more addresses
NextConstruct ==
    \/ ConstructIPv4(IPv4Inputs)
    \/ ConstructIPv6(IPv6Inputs)
    \/ Destroy

SpecConstruct == Init /\ [][NextConstruct]_vars

----------------------------------------------------------------------------
(* Arithmetic on one IPAddress *)

AddressInputs == IPv4Inputs \cup IPv6Inputs

\* an IPAddress object of either class, holding one of the given addresses
ConstructedAddress(inputs) ==
    /\ kind = "none"
    /\ net = NoNetwork
    /\ subnets = <<>>
    /\ result = "none"
    /\ call = NoCall
    /\ lastOk = NoSegment
    /\ leaked = FALSE
    /\ address \in inputs
    /\ before = address
    /\ lastOp = "none"
    /\ steps = 0
    /\ family = IF Len(address) = IPV4_NUM_OCTETS THEN "IPv4" ELSE "IPv6"
    /\ operand = NoOperand
    /\ maskObject = DefaultMask
    /\ inverse = DefaultMask
    /\ maskCall = NoMaskCall
    /\ input = <<>>
    /\ parsed = NoParse
    /\ rendered = <<>>
    /\ reparsed = NoParse
    /\ textCall = NoTextCall
    /\ capacity = NoCapacity
    /\ cli = NoRun

InitAddress == ConstructedAddress(AddressInputs)

Increment ==
    /\ steps < MaxOps
    /\ address' = PreIncrement(address)
    /\ before' = address
    /\ lastOp' = "++"
    /\ steps' = steps + 1
    /\ operand' = NoOperand
    /\ UNCHANGED family
    /\ UNCHANGED <<netVars, maskVars, textVars, progVars>>

Decrement ==
    /\ steps < MaxOps
    /\ address' = PreDecrement(address)
    /\ before' = address
    /\ lastOp' = "--"
    /\ steps' = steps + 1
    /\ operand' = NoOperand
    /\ UNCHANGED family
    /\ UNCHANGED <<netVars, maskVars, textVars, progVars>>

NextAddress ==
    \/ Increment
    \/ Decrement

SpecAddress == InitAddress /\ [][NextAddress]_vars

\* all the operators, over fewer addresses
ArithInputs ==
    { <<1, 2, 3, 4>>, <<1, 2, 3, 0>>, <<1, 2, 3, 255>>, <<0, 0, 0, 0>>, <<255, 255, 255, 255>>,
      <<32, 1, 13, 184, 133, 163, 0, 0, 0, 0, 138, 46, 3, 112, 115, 52>>,
      [i \in 1..IPV6_NUM_OCTETS |-> 255],
      [i \in 1..IPV6_NUM_OCTETS |-> IF i = 1 THEN 128 ELSE 0] }

\* the int operands: small ones, ones of more than one octet and INT_MAX
IntOperands == {0, 1, 2, 256, 300, 2147483647}

\* the byte vectors added to an IPv6 address, each at most as long as the address
VectorOperands ==
    { <<>>, <<1>>, <<1, 255>>,
      [i \in 1..IPV6_NUM_OCTETS |-> IF i = IPV6_NUM_OCTETS THEN 1 ELSE 0],
      [i \in 1..IPV6_NUM_OCTETS |-> IF i = 1 THEN 128 ELSE 0] }

\* the Mask operands: Mask(p) and ~Mask(p)
MaskOperands ==
    LET masks == {MaskCtor(p).mask : p \in {3, 24, 33, 128}}
    IN  masks \cup {MaskNot(m) : m \in {MaskCtor(p).mask : p \in {12, 24}}}

InitArith == ConstructedAddress(ArithInputs)

AddIntOp ==
    /\ steps < MaxOperandOps
    /\ \E k \in IntOperands, ov \in {"wrap", "wide"} :
         /\ address' = AddInt(address, k, ov)
         /\ operand' = [NoOperand EXCEPT !.k = k]
    /\ before' = address
    /\ lastOp' = "+=int"
    /\ steps' = steps + 1
    /\ UNCHANGED family
    /\ UNCHANGED <<netVars, maskVars, textVars, progVars>>

SubIntOp ==
    /\ steps < MaxOperandOps
    /\ \E k \in IntOperands :
         /\ address' = SubInt(address, k)
         /\ operand' = [NoOperand EXCEPT !.k = k]
    /\ before' = address
    /\ lastOp' = "-=int"
    /\ steps' = steps + 1
    /\ UNCHANGED family
    /\ UNCHANGED <<netVars, maskVars, textVars, progVars>>

\* operator+=(vector) is a member of IPv6Address only
AddVectorOp ==
    /\ steps < MaxOperandOps
    /\ family = "IPv6"
    /\ \E v \in VectorOperands :
         /\ address' = AddVector(address, v)
         /\ operand' = [NoOperand EXCEPT !.v = v]
    /\ before' = address
    /\ lastOp' = "+=vector"
    /\ steps' = steps + 1
    /\ UNCHANGED family
    /\ UNCHANGED <<netVars, maskVars, textVars, progVars>>

AndMaskOp ==
    /\ steps < MaxOperandOps
    /\ \E m \in MaskOperands :
         /\ address' = AndMask(address, m)
         /\ operand' = [NoOperand EXCEPT !.mask = m]
    /\ before' = address
    /\ lastOp' = "&="
    /\ steps' = steps + 1
    /\ UNCHANGED family
    /\ UNCHANGED <<netVars, maskVars, textVars, progVars>>

OrMaskOp ==
    /\ steps < MaxOperandOps
    /\ \E m \in MaskOperands :
         /\ address' = OrMask(address, m)
         /\ operand' = [NoOperand EXCEPT !.mask = m]
    /\ before' = address
    /\ lastOp' = "|="
    /\ steps' = steps + 1
    /\ UNCHANGED family
    /\ UNCHANGED <<netVars, maskVars, textVars, progVars>>

NextArith ==
    \/ Increment
    \/ Decrement
    \/ AddIntOp
    \/ SubIntOp
    \/ AddVectorOp
    \/ AndMaskOp
    \/ OrMaskOp

SpecArith == InitArith /\ [][NextArith]_vars

----------------------------------------------------------------------------
(* The capacity an IPAddress object reports *)

\* the prefix lengths calculateCapacity is called with
CapacityPrefixInputs == 1..130

\* a.calculateCapacity(p) on an IPv4Address or an IPv6Address
CalculateCapacity ==
    /\ capacity.family = "none"
    /\ \E p \in CapacityPrefixInputs :
         capacity' = [family |-> family, prefixLength |-> p, value |-> calculateCapacity(p)]
    /\ UNCHANGED cli
    /\ UNCHANGED <<netVars, addrVars, maskVars, textVars>>

NextCapacity == CalculateCapacity

SpecCapacity == InitArith /\ [][NextCapacity]_vars

----------------------------------------------------------------------------
(* Runs of the program *)

\* the first argument: address/prefix texts, well and ill formed
FirstArguments ==
    { <<"1", ".", "2", ".", "3", ".", "0", "/", "2", "4">>,
      <<"1", ".", "2", ".", "3", ".", "0">>,
      <<"1", ".", "2", ".", "3", ".", "0", "/", "2", "4", "/", "5">>,
      <<"1", ".", "2", ".", "3", ".", "0", "/">>,
      <<"/", "2", "4">>,
      <<"1", ".", "2", ".", "3", ".", "0", "/", "a", "b", "c">>,
      <<"1", ".", "2", ".", "3", ".", "0", "/", "3", "3">>,
      <<"1", ".", "2", ".", "3", "/", "2", "4">>,
      <<":", ":", "/", "6", "4">>,
      <<"1", ":", ":", "/", "6", "4">>,
      <<"1", ":", ":", "/", "1", "2", "9">>,
      <<"1", ":", ":", "2", ":", ":", "3", "/", "6", "4">>,
      <<"1", ".", "2", ".", "3", ".", "0", "/", "2", "4", "x">>,
      <<"9", "9", "9", ".", "1", ".", "1", ".", "1", "/", "2", "4">>,
      <<>>,
      <<"1", ".", "2", ".", "3", ".", "0", "/", "9", "9", "9", "9", "9", "9", "9", "9", "9", "9", "9">>,
      <<"1", ":", "2", "/", "6", "4">>,
      <<"1", ".", "2", ".", "3", ".", "0", "/", "-", "8">> }

\* the second argument: the number of subnets
SecondArguments ==
    { <<"2">>,
      <<"4">>,
      <<"0">>,
      <<"-", "1">>,
      <<"a", "b", "c">>,
      <<>>,
      <<"4", "x">>,
      <<" ", "4">>,
      <<"9", "9", "9", "9", "9", "9", "9", "9", "9", "9", "9">>,
      <<"3", "0", "0">>,
      <<"1">>,
      <<"+", "3">>,
      <<"6", "5", "5", "3", "7">>,
      <<"-">> }

\* the argument lists: none, one, two, and three arguments
ArgumentLists ==
    {<<>>}
        \cup {<<a>> : a \in FirstArguments}
        \cup {<<a, b>> : a \in FirstArguments, b \in SecondArguments}
        \cup {<<a, b, <<"x">>>> : a \in FirstArguments, b \in SecondArguments}

\* one run of the program
RunMain ==
    /\ cli.status = "none"
    /\ \E args \in ArgumentLists :
         cli' = [args |-> args, status |-> main(args).status, report |-> main(args).report,
                 diagnostics |-> main(args).diagnostics]
    /\ UNCHANGED capacity
    /\ UNCHANGED <<netVars, addrVars, maskVars, textVars>>

NextCli == RunMain

SpecCli == Init /\ [][NextCli]_vars

----------------------------------------------------------------------------
(* Mask objects *)

\* how many times operator~ is applied in a row
MaxComplements == 2

MaskPrefixInputs == (-3)..132

\* Mask m(p)
ConstructMask ==
    /\ maskCall.op = "none"
    /\ \E p \in MaskPrefixInputs :
         LET r == MaskCtor(p)
         IN  /\ maskObject' = r.mask
             /\ maskCall' = [op |-> "construct", p |-> p, thrown |-> r.thrown,
                             depth |-> 0, m |-> maskObject]
    /\ inverse' = DefaultMask
    /\ UNCHANGED <<netVars, addrVars, textVars, progVars>>

\* ~m on the constructed Mask, then ~ on what the last ~ returned
Complement ==
    /\ maskCall.op \in {"construct", "~"}
    /\ ~maskCall.thrown
    /\ maskCall.depth < MaxComplements
    /\ inverse' = MaskNot(IF maskCall.depth = 0 THEN maskObject ELSE inverse)
    /\ maskCall' = [op |-> "~", p |-> maskCall.p, thrown |-> FALSE,
                    depth |-> maskCall.depth + 1, m |-> maskObject]
    /\ UNCHANGED maskObject
    /\ UNCHANGED <<netVars, addrVars, textVars, progVars>>

NextMask ==
    \/ ConstructMask
    \/ Complement

SpecMask == Init /\ [][NextMask]_vars

----------------------------------------------------------------------------
(* Addresses from and to text *)

RECURSIVE Join(_, _)
\* the parts written one after the other with the separator between them
Join(parts, separator) ==
    IF Len(parts) = 0 THEN <<>>
    ELSE IF Len(parts) = 1 THEN parts[1]
    ELSE parts[1] \o separator \o Join(Tail(parts), separator)

\* the components IPv4 texts are written with: valid ones, with and without
\* leading zeros, empty, above 255, above INT_MAX, and with other characters
IPv4Components ==
    { <<>>, <<"0">>, <<"7">>, <<"2", "5", "5">>, <<"0", "0", "9", "1">>, <<"2", "5", "6">>,
      <<"1", "a">>, <<"-", "1">>,
      <<"2", "1", "4", "7", "4", "8", "3", "6", "4", "7">>,
      <<"2", "1", "4", "7", "4", "8", "3", "6", "4", "8">> }

\* the texts: every text of four components, and texts of fewer and of more
IPv4TextParts ==
    LET few == {<<>>, <<"1">>, <<"2", "5", "5">>}
    IN  [1..4 -> IPv4Components]
            \cup UNION {[1..n -> few] : n \in {1, 2, 3, 5}}

\* the groups IPv6 texts are written with, taken in this order from the left
IPv6LeftGroups ==
    { <<<<"1">>, <<"2">>, <<"3">>, <<"4">>, <<"5">>, <<"6">>, <<"7">>, <<"8">>, <<"9">>>>,
      <<<<"f", "f", "f", "f">>, <<"0">>, <<"0", "0", "A", "0">>, <<"A", "b", "c">>, <<"2", "0", "0", "1">>,
        <<"0", "d", "b", "8">>, <<"8", "5", "a", "3">>, <<"1">>, <<"2">>>>,
      <<<<"1">>, <<"g">>, <<"3">>, <<"4">>, <<"5">>, <<"6">>, <<"7">>, <<"8">>, <<"9">>>>,
      <<<<"1", "0", "0", "0", "0">>, <<"2">>, <<"3">>, <<"4">>, <<"5">>, <<"6">>, <<"7">>, <<"8">>, <<"9">>>>,
      <<<<"f", "f", "f", "f", "f", "f", "f", "f", "f">>, <<"2">>, <<"3">>, <<"4">>, <<"5">>, <<"6">>,
        <<"7">>, <<"8">>, <<"9">>>>,
      <<<<"1">>, <<"0">>, <<"0">>, <<"4">>, <<"5">>, <<"0">>, <<"0", "0">>, <<"8">>, <<"9">>>>,
      <<<<"0">>, <<"0">>, <<"3", "0">>, <<"0">>, <<"0">>, <<"0">>, <<"B", "e", "0", "7">>, <<"0">>, <<"9">>>>,
      <<<<"1">>, <<"0">>, <<"3">>, <<"4">>, <<"0", "0", "0">>, <<"6">>, <<"7">>, <<"0">>, <<"9">>>> }

\* and from the right of "::"
IPv6RightGroups ==
    { <<<<"a">>, <<"b">>, <<"c">>, <<"d">>, <<"e">>, <<"f">>, <<"1", "0">>, <<"1", "1">>, <<"1", "2">>>>,
      <<<<"8", "a", "2", "e">>, <<"0", "3", "7", "0">>, <<"7", "3", "3", "4">>, <<"0">>, <<"F", "F">>,
        <<"1">>, <<"2">>, <<"3">>, <<"4">>>> }

\* IPv4Address a(text)
ParseIPv4 ==
    /\ textCall.op = "none"
    /\ \E parts \in IPv4TextParts :
         /\ input' = Join(parts, <<".">>)
         /\ parsed' = IPv4setAddress(Join(parts, <<".">>))
         /\ textCall' = [op |-> "parse", family |-> "IPv4", compressed |-> FALSE,
                         parts |-> parts, right |-> <<>>, tokens |-> 0, rest |-> <<>>]
    /\ UNCHANGED <<rendered, reparsed>>
    /\ UNCHANGED <<netVars, addrVars, maskVars, progVars>>

\* IPv6Address a(text), the text written with or without "::"
ParseIPv6 ==
    /\ textCall.op = "none"
    /\ \E left \in IPv6LeftGroups, right \in IPv6RightGroups, compressed \in BOOLEAN :
         \E nl \in 0..Len(left), nr \in 0..Len(right) :
            LET l == SubSeq(left, 1, nl)
                r == IF compressed THEN SubSeq(right, 1, nr) ELSE <<>>
                t == IF compressed THEN Join(l, <<":">>) \o <<":", ":">> \o Join(r, <<":">>)
                     ELSE Join(l, <<":">>)
            IN  /\ compressed \/ nr = 0
                /\ input' = t
                /\ parsed' = IPv6setAddress(t)
                /\ textCall' = [op |-> "parse", family |-> "IPv6", compressed |-> compressed,
                                parts |-> l, right |-> r,
                                tokens |-> IF compressed THEN 1 ELSE 0, rest |-> <<>>]
    /\ UNCHANGED <<rendered, reparsed>>
    /\ UNCHANGED <<netVars, addrVars, maskVars, progVars>>

\* the groups written after a second "::"
IPv6RestGroups == <<<<"3">>, <<"0", "4">>, <<"5">>>>

\* IPv6Address a(text), the text written with two "::"
ParseIPv6TwoTokens ==
    /\ textCall.op = "none"
    /\ \E left \in IPv6LeftGroups, right \in IPv6RightGroups :
         \E nl \in 0..3, nr \in 1..3, nx \in 0..Len(IPv6RestGroups) :
            LET l == SubSeq(left, 1, nl)
                r == SubSeq(right, 1, nr)
                x == SubSeq(IPv6RestGroups, 1, nx)
                t == Join(l, <<":">>) \o <<":", ":">> \o Join(r, <<":">>)
                        \o <<":", ":">> \o Join(x, <<":">>)
            IN  /\ input' = t
                /\ parsed' = IPv6setAddress(t)
                /\ textCall' = [op |-> "parse", family |-> "IPv6", compressed |-> TRUE,
                                parts |-> l, right |-> r, tokens |-> 2, rest |-> x]
    /\ UNCHANGED <<rendered, reparsed>>
    /\ UNCHANGED <<netVars, addrVars, maskVars, progVars>>

\* a.toString() on an IPv4Address
RenderIPv4 ==
    /\ textCall.op = "parse"
    /\ textCall.family = "IPv4"
    /\ parsed.result = "ok"
    /\ rendered' = IPv4print(parsed.address)
    /\ textCall' = [textCall EXCEPT !.op = "render"]
    /\ UNCHANGED <<input, parsed, reparsed>>
    /\ UNCHANGED <<netVars, addrVars, maskVars, progVars>>

\* IPv4Address b(a.toString())
ReparseIPv4 ==
    /\ textCall.op = "render"
    /\ textCall.family = "IPv4"
    /\ reparsed' = IPv4setAddress(rendered)
    /\ textCall' = [textCall EXCEPT !.op = "reparse"]
    /\ UNCHANGED <<input, parsed, rendered>>
    /\ UNCHANGED <<netVars, addrVars, maskVars, progVars>>

\* a.toString() on an IPv6Address
RenderIPv6 ==
    /\ textCall.op = "parse"
    /\ textCall.family = "IPv6"
    /\ parsed.result = "ok"
    /\ rendered' = IPv6print(parsed.address)
    /\ textCall' = [textCall EXCEPT !.op = "render"]
    /\ UNCHANGED <<input, parsed, reparsed>>
    /\ UNCHANGED <<netVars, addrVars, maskVars, progVars>>

\* IPv6Address b(a.toString())
ReparseIPv6 ==
    /\ textCall.op = "render"
    /\ textCall.family = "IPv6"
    /\ reparsed' = IPv6setAddress(rendered)
    /\ textCall' = [textCall EXCEPT !.op = "reparse"]
    /\ UNCHANGED <<input, parsed, rendered>>
    /\ UNCHANGED <<netVars, addrVars, maskVars, progVars>>

NextText ==
    \/ ParseIPv4
    \/ ParseIPv6
    \/ ParseIPv6TwoTokens
    \/ RenderIPv4
    \/ ReparseIPv4
    \/ RenderIPv6
    \/ ReparseIPv6

SpecText == Init /\ [][NextText]_vars

----------------------------------------------------------------------------
(* Addresses as numbers: the bits of an address, most significant first *)

\* bit k (from the least significant, 0) of the natural number x
Bit(x, k) == (x \div (2 ^ k)) % 2

\* the 8 * Len(a) bits of the byte sequence a
BitsOf(a) == [j \in 1..(8 * Len(a)) |-> Bit(a[((j - 1) \div 8) + 1], 7 - ((j - 1) % 8))]

\* the bits of x * 2^h as a number of w bits (x below 2^31)
NatBits(x, h, w) ==
    [j \in 1..w |-> IF w - j >= h /\ w - j - h <= 30 THEN Bit(x, w - j - h) ELSE 0]

\* x + y modulo 2^Len(x), on bits
BitsPlus(x, y) ==
    LET w == Len(x)
        \* the carry into bit j: some lower bit generates one and every bit
        \* between passes it on
        c(j) == IF \E i \in (j + 1)..w :
                       /\ x[i] + y[i] = 2
                       /\ \A m \in (j + 1)..(i - 1) : x[m] + y[m] = 1
                THEN 1 ELSE 0
    IN  [j \in 1..w |-> (x[j] + y[j] + c(j)) % 2]

\* x < y as numbers of the same width
BitsLess(x, y) ==
    \E j \in 1..Len(x) : x[j] < y[j] /\ \A i \in 1..(j - 1) : x[i] = y[i]

\* a + x * 2^h modulo 2^(8 * Len(a)), as bits
PlusShifted(a, x, h) == BitsPlus(BitsOf(a), NatBits(x, h, 8 * Len(a)))

\* the first q bits of a followed by the bit fill
PrefixThen(a, q, fill) == [j \in 1..(8 * Len(a)) |-> IF j <= q THEN BitsOf(a)[j] ELSE fill]

\* the least k with 2^k >= n, for n from 1 to 2^30
LeastPower(n) == CHOOSE k \in 0..30 : 2 ^ k >= n /\ (k = 0 \/ 2 ^ (k - 1) < n)

----------------------------------------------------------------------------
(* Claims about segmentation *)

Segmented == call.op = "segment" /\ result = "ok"

FamilyMax == IF kind = "IPv4" THEN 32 ELSE 128

\* the prefix length the children of the last segment call are to have
ChildPrefix == call.p + LeastPower(call.n)

\* the last address of a network's block: its base with all host bits set
BlockEnd(network) == PrefixThen(network.ip, getPrefixLength(network), 1)

\* n > 2^(32 - p), or n > 65536 from p = 32 on (p from 1 up)
ExceedsCapacity(n, p) ==
    IF p >= 32 THEN n > 65536 ELSE n >= 1 /\ (n - 1) \div 2 >= 2 ^ (31 - p)

\* C1: after a successful segment(n) on a network of prefix length p the
\* network has exactly n children and every child has prefix length
\* p + ceil(log2(n)).
C1_ChildCountAndPrefix ==
    Segmented =>
        /\ Len(subnets) = call.n
        /\ \A k \in 1..Len(subnets) : getPrefixLength(subnets[k]) = ChildPrefix

C1_Witness ==
    /\ Segmented
    /\ kind = "IPv6"
    /\ call.n = 3
    /\ call.p = 64
    /\ Len(subnets) = 3
    /\ getPrefixLength(subnets[3]) = 66

\* C2: after a successful segment(n) the children's bases are strictly
\* increasing in list order, the blocks of two distinct children do not
\* overlap, and for IPv4 the i-th child's base is the parent's base plus
\* i * 2^(32 - newPrefixLength).
C2_ChildrenIncreasingDisjoint ==
    Segmented =>
        /\ \A i, j \in 1..Len(subnets) :
               i < j =>
                   /\ BitsLess(BitsOf(subnets[i].ip), BitsOf(subnets[j].ip))
                   /\ BitsLess(BlockEnd(subnets[i]), BitsOf(subnets[j].ip))
        /\ kind = "IPv4" =>
               \A k \in 1..Len(subnets) :
                   BitsOf(subnets[k].ip) = PlusShifted(net.ip, k - 1, 32 - ChildPrefix)

C2_Witness ==
    /\ Segmented
    /\ kind = "IPv4"
    /\ net.ip = <<1, 2, 3, 0>>
    /\ call.p = 24
    /\ call.n = 4
    /\ [k \in 1..4 |-> subnets[k].ip] =
           << <<1, 2, 3, 0>>, <<1, 2, 3, 64>>, <<1, 2, 3, 128>>, <<1, 2, 3, 192>> >>

\* C3: for every network of prefix length p, segment(calculateCapacity(p))
\* succeeds and the children's blocks cover the parent's block with no gap
\* and no overlap.
C3_SegmentCapacityCovers ==
    (call.op = "segment" /\ call.n = CapacityInt(call.p)) =>
        /\ result = "ok"
        /\ subnets[1].ip = net.ip
        /\ \A k \in 1..(Len(subnets) - 1) :
               BitsOf(subnets[k + 1].ip) =
                   BitsPlus(BlockEnd(subnets[k]), NatBits(1, 0, 8 * Len(net.ip)))
        /\ BlockEnd(subnets[Len(subnets)]) = BlockEnd(net)

\* C4: segment(n) on a network of prefix length p fails with invalid_argument
\* exactly when n < 1, or n exceeds the capacity, or p + ceil(log2(n))
\* exceeds the family maximum; for every other n it succeeds.
C4_SegmentFailsExactlyWhen ==
    call.op = "segment" =>
        /\ result \in {"ok", "invalid_argument"}
        /\ result = "invalid_argument" <=>
               \/ call.n < 1
               \/ ExceedsCapacity(call.n, call.p)
               \/ call.p + LeastPower(call.n) > FamilyMax

C4_Witness ==
    /\ call.op = "segment"
    /\ kind = "IPv4"
    /\ call.p = 31
    /\ call.n = 3
    /\ result = "invalid_argument"

----------------------------------------------------------------------------
(* Claims about construction *)

Constructed == call.op \in {"construct4", "construct6"} /\ result = "ok"

\* C5: Network(a, p) stores base = a AND Mask(p), the first p bits of a
\* followed by zeros, and computes the address with all host bits set, stored
\* as lastUsable for IPv6 and as broadcast for IPv4.
C5_BaseAndBlockEnd ==
    Constructed =>
        /\ BitsOf(net.ip) = PrefixThen(call.a, call.p, 0)
        /\ BitsOf(IF kind = "IPv4" THEN net.broadcastIp ELSE net.lastIp) =
               PrefixThen(call.a, call.p, 1)

C5_Witness ==
    /\ Constructed
    /\ kind = "IPv4"
    /\ call.a = <<1, 2, 3, 4>>
    /\ call.p = 24
    /\ net.ip = <<1, 2, 3, 0>>
    /\ net.broadcastIp = <<1, 2, 3, 255>>

\* C6: for every address and compatible prefix length the constructed
\* Network has firstUsable = base + 1 as fixed-width big-endian numbers.
C6_FirstIsBasePlusOne ==
    Constructed => BitsOf(net.firstIp) = PlusShifted(net.ip, 1, 0)

\* C7: for every IPv4 address and prefix length from 1 to 31 the constructed
\* IPv4Network has broadcast = lastUsable + 1 as 32-bit numbers.
C7_BroadcastIsLastPlusOne ==
    (Constructed /\ kind = "IPv4" /\ call.p \in 1..31) =>
        BitsOf(net.broadcastIp) = PlusShifted(net.lastIp, 1, 0)

C7_Witness ==
    /\ Constructed
    /\ kind = "IPv4"
    /\ call.a = <<1, 2, 3, 4>>
    /\ call.p = 24
    /\ net.lastIp = <<1, 2, 3, 254>>
    /\ net.broadcastIp = <<1, 2, 3, 255>>

\* C8: construction fails with invalid_argument exactly when the prefix
\* length is outside 1..32 for IPv4 and outside 1..128 for IPv6, and then no
\* Network is produced.
C8_ConstructFailsExactlyWhen ==
    /\ call.op = "construct4" =>
           /\ result = "invalid_argument" <=> ~(1 <= call.p /\ call.p <= 32)
           /\ result = "ok" <=> kind = "IPv4"
    /\ call.op = "construct6" =>
           /\ result = "invalid_argument" <=> ~(1 <= call.p /\ call.p <= 128)
           /\ result = "ok" <=> kind = "IPv6"
    /\ (call.op \in {"construct4", "construct6"} /\ result # "ok") =>
           kind = "none" /\ net = NoNetwork

C8_Witness ==
    /\ call.op = "construct4"
    /\ call.p = 33
    /\ result = "invalid_argument"
    /\ kind = "none"

----------------------------------------------------------------------------
(* Claims about address arithmetic *)

\* C9: operator++ on an address with value v yields (v + 1) modulo 2^(8L).
C9_IncrementAddsOne ==
    lastOp = "++" => BitsOf(address) = PlusShifted(before, 1, 0)

\* C10: operator-- on an address with value v yields (v - 1) modulo 2^(8L).
C10_DecrementSubtractsOne ==
    lastOp = "--" => BitsOf(before) = PlusShifted(address, 1, 0)

----------------------------------------------------------------------------
(* Claims about the arithmetic operators *)

\* C11: a += k for an int k >= 0 leaves an address of the same length whose
\* numeric value is the value before plus k, modulo 2^(8 * length).
C11_AddIntAddsModulo ==
    lastOp = "+=int" =>
        /\ Len(address) = Len(before)
        /\ BitsOf(address) = PlusShifted(before, operand.k, 0)

\* C12: a -= k for an int k >= 0 leaves an address whose numeric value plus k
\* is the value before, modulo 2^(8 * length): borrows reach the next octet.
C12_SubIntSubtractsModulo ==
    lastOp = "-=int" =>
        /\ Len(address) = Len(before)
        /\ BitsOf(before) = PlusShifted(address, operand.k, 0)

\* the bits of the byte vector v as a number of w bits, w >= 8 * Len(v)
PadBits(v, w) ==
    [j \in 1..w |-> IF j > w - 8 * Len(v) THEN BitsOf(v)[j - (w - 8 * Len(v))] ELSE 0]

\* x + y does not fit the width of x
Overflows(x, y) == BitsPlus(<<0>> \o x, <<0>> \o y)[1] = 1

\* C13: a += v on a 16-byte IPv6 address a and a byte vector v of at most 16
\* bytes whose sum with a is below 2^128 leaves the 16-byte big-endian
\* encoding of value(a) + value(v), v counting from the least significant end.
C13_AddVectorAddsValues ==
    (/\ lastOp = "+=vector"
     /\ Len(before) = IPV6_NUM_OCTETS
     /\ Len(operand.v) <= IPV6_NUM_OCTETS
     /\ ~Overflows(BitsOf(before), PadBits(operand.v, 8 * IPV6_NUM_OCTETS)))
    => /\ Len(address) = IPV6_NUM_OCTETS
       /\ BitsOf(address) = BitsPlus(BitsOf(before), PadBits(operand.v, 8 * IPV6_NUM_OCTETS))

C13_Witness ==
    /\ lastOp = "+=vector"
    /\ before = <<32, 1, 13, 184, 133, 163, 0, 0, 0, 0, 138, 46, 3, 112, 115, 52>>
    /\ operand.v = <<1, 255>>
    /\ address = <<32, 1, 13, 184, 133, 163, 0, 0, 0, 0, 138, 46, 3, 112, 117, 51>>

\* C14: the length of an address never changes after construction: whatever
\* operators were applied, an IPv4 address has 4 bytes and an IPv6 address 16.
C14_LengthNeverChanges ==
    /\ family = "IPv4" => Len(address) = 4
    /\ family = "IPv6" => Len(address) = 16

\* C15: a &= m replaces octet i of the address by (octet AND octet i of m)
\* below the byte count of m and by 0 from there on; a |= m replaces it by
\* (octet OR octet i of m) below the byte count of m and by 255 from there on.
C15_MaskOperatorsBytewise ==
    LET m == operand.mask.maskOctets
    IN  /\ lastOp = "&=" =>
            /\ Len(address) = Len(before)
            /\ \A i \in 1..Len(before) :
                 /\ address[i] \in 0..255
                 /\ \A k \in 0..7 :
                      Bit(address[i], k) =
                          IF i <= Len(m) THEN Bit(before[i], k) * Bit(m[i], k) ELSE 0
        /\ lastOp = "|=" =>
            /\ Len(address) = Len(before)
            /\ \A i \in 1..Len(before) :
                 /\ address[i] \in 0..255
                 /\ \A k \in 0..7 :
                      Bit(address[i], k) =
                          IF i <= Len(m) THEN 1 - ((1 - Bit(before[i], k)) * (1 - Bit(m[i], k)))
                          ELSE 1

C15_Witness ==
    /\ lastOp = "|="
    /\ before = <<1, 2, 3, 4>>
    /\ operand.mask.maskOctets = <<0, 15>>
    /\ address = <<1, 15, 255, 255>>

----------------------------------------------------------------------------
(* Claims about Mask *)

\* C16: Mask(p) throws invalid_argument exactly when p is outside 1..128; for
\* p in 1..128 it stores ceil(p / 8) octets whose bits are p ones followed by
\* zeros only, and its prefix length is p.
C16_MaskOnesThenZeros ==
    maskCall.op = "construct" =>
        /\ maskCall.thrown <=> (maskCall.p < 1 \/ maskCall.p > 128)
        /\ ~maskCall.thrown =>
            /\ 8 * (Len(maskObject.maskOctets) - 1) < maskCall.p
            /\ maskCall.p <= 8 * Len(maskObject.maskOctets)
            /\ \A i \in 1..Len(maskObject.maskOctets) : maskObject.maskOctets[i] \in 0..255
            /\ \A j \in 1..(8 * Len(maskObject.maskOctets)) :
                 BitsOf(maskObject.maskOctets)[j] = IF j <= maskCall.p THEN 1 ELSE 0
            /\ maskObject.prefixLength = maskCall.p

C16_Witness ==
    /\ maskCall.op = "construct"
    /\ maskCall.p = 19
    /\ maskObject.maskOctets = <<255, 255, 224>>
    /\ maskObject.prefixLength = 19

\* C17: ~m is a Mask with the byte count and the prefix length of m whose
\* octets are 255 minus the octets of m, m itself is left as it was, and
\* ~~m has the octets of m.
C17_ComplementInvertsOctets ==
    maskCall.op = "~" =>
        /\ maskObject = maskCall.m
        /\ inverse.prefixLength = maskObject.prefixLength
        /\ Len(inverse.maskOctets) = Len(maskObject.maskOctets)
        /\ \A i \in 1..Len(maskObject.maskOctets) :
             inverse.maskOctets[i] =
                 IF maskCall.depth % 2 = 1 THEN 255 - maskObject.maskOctets[i]
                 ELSE maskObject.maskOctets[i]

C17_Witness ==
    /\ maskCall.op = "~"
    /\ maskCall.depth = 1
    /\ maskObject.maskOctets = <<255, 255, 224>>
    /\ inverse.maskOctets = <<0, 0, 31>>
    /\ inverse.prefixLength = 19

----------------------------------------------------------------------------
(* Claims about addresses from and to text *)

RECURSIVE StripZeros(_)
\* a component without its leading zeros, one character at least being kept
StripZeros(c) == IF Len(c) > 1 /\ c[1] = "0" THEN StripZeros(Tail(c)) ELSE c

\* the number a text of digits of the base denotes (a few digits only)
RECURSIVE Denotes(_, _)
Denotes(c, base) ==
    IF Len(c) = 0 THEN 0
    ELSE base * Denotes(SubSeq(c, 1, Len(c) - 1), base) + DigitValue(c[Len(c)])

\* a component an IPv4 text may have: digits only, denoting at most 255
ValidOctetText(c) ==
    /\ Len(c) > 0
    /\ \A k \in 1..Len(c) : c[k] \in {"0", "1", "2", "3", "4", "5", "6", "7", "8", "9"}
    /\ Len(StripZeros(c)) <= 3
    /\ Denotes(StripZeros(c), 10) <= 255

ValidIPv4Parts(parts) ==
    Len(parts) = 4 /\ \A i \in 1..Len(parts) : ValidOctetText(parts[i])

IPv4Parsed == textCall.family = "IPv4" /\ textCall.op = "parse"

\* C18: IPv4Address(text) succeeds exactly when the text has 4 components
\* between periods, each non-empty, of digits only and denoting 0..255, and
\* then stores the four values in order; every other text, components of
\* many digits included, ends in invalid_argument.
C18_IPv4ParseAcceptsExactly ==
    IPv4Parsed =>
        /\ ValidIPv4Parts(textCall.parts) =>
                /\ parsed.result = "ok"
                /\ parsed.address = [i \in 1..4 |-> Denotes(StripZeros(textCall.parts[i]), 10)]
        /\ ~ValidIPv4Parts(textCall.parts) => parsed.result = "invalid_argument"

\* C19: for a valid IPv4 text, toString() gives the four values in order in
\* decimal without leading zeros, joined by periods, and an address
\* constructed from that rendering has the same four bytes.
C19_IPv4RenderRoundTrip ==
    (textCall.family = "IPv4" /\ ValidIPv4Parts(textCall.parts)) =>
        /\ textCall.op \in {"render", "reparse"} =>
                rendered = Join([i \in 1..4 |-> StripZeros(textCall.parts[i])], <<".">>)
        /\ textCall.op = "reparse" =>
                /\ reparsed.result = "ok"
                /\ reparsed.address = parsed.address

C19_Witness ==
    /\ textCall.op = "reparse"
    /\ input = <<"0", "0", "9", "1", ".", "2", "5", "5", ".", "0", ".", "7">>
    /\ rendered = <<"9", "1", ".", "2", "5", "5", ".", "0", ".", "7">>
    /\ reparsed.address = <<91, 255, 0, 7>>

\* a group an IPv6 text may have: up to four significant hexadecimal digits
ValidGroupText(g) ==
    /\ Len(g) > 0
    /\ \A k \in 1..Len(g) : isxdigit(g[k])
    /\ Len(StripZeros(g)) <= 4

\* the bytes of eight groups, each most significant byte first
GroupBytes(groups) ==
    [j \in 1..16 |->
        LET v == Denotes(StripZeros(groups[(j + 1) \div 2]), 16)
        IN  IF j % 2 = 1 THEN v \div 256 ELSE v % 256]

\* C20: IPv6Address(text) on a text with "::" succeeds only when the groups
\* written left and right of it are 8 at most, and then stores the left
\* groups, zero groups up to 8 in all, and the right groups; with more than 8
\* written groups it ends in invalid_argument, no group being dropped; a text
\* without "::" that is accepted has exactly 8 groups.
C20_IPv6CompressedParse ==
    (textCall.family = "IPv6" /\ textCall.op = "parse" /\ textCall.tokens < 2) =>
        LET l == textCall.parts
            r == textCall.right
            total == Len(l) + Len(r)
        IN  IF textCall.compressed
            THEN /\ parsed.result = "ok" =>
                        /\ total <= 8
                        /\ parsed.address =
                               GroupBytes(l \o [i \in 1..(8 - total) |-> <<"0">>] \o r)
                 /\ total > 8 => parsed.result = "invalid_argument"
            ELSE parsed.result = "ok" => Len(l) = 8

\* C21: IPv6Address(text) on a text with two "::" ends in invalid_argument,
\* whatever is written before, between and after them.
C21_TwoTokensRejected ==
    (textCall.family = "IPv6" /\ textCall.op = "parse" /\ textCall.tokens = 2) =>
        parsed.result = "invalid_argument"

\* the 8 groups of an IPv6 address as numbers, counted from 0
GroupValues(a) == [g \in 0..7 |-> a[2 * g + 1] * 256 + a[2 * g + 2]]

\* the lowercase hexadecimal text of a group value, without leading zeros
HexText(n) ==
    LET len == CHOOSE l \in 1..4 : n < 16 ^ l /\ (l = 1 \/ n >= 16 ^ (l - 1))
    IN  [i \in 1..len |-> LowerHexDigits[((n \div (16 ^ (len - i))) % 16) + 1]]

\* the texts of the groups from group lo to group hi
GroupTexts(a, lo, hi) == [i \in 1..(hi - lo + 1) |-> HexText(GroupValues(a)[lo + i - 1])]

\* an IPv6Address was rendered
IPv6Rendered == textCall.family = "IPv6" /\ textCall.op \in {"render", "reparse"}

\* C22: toString() of an IPv6 address with a zero group is the groups before
\* the chosen run of zero groups joined by ":", then "::", then the groups
\* after the run joined by ":", wherever the run is; without a zero group it is
\* the 8 groups joined by ":". Groups are in lowercase hexadecimal without
\* leading zeros.
C22_IPv6RenderCompresses ==
    IPv6Rendered =>
        LET a == parsed.address
            run == findLongestZeroSequence(a)
        IN  IF \A g \in 0..7 : GroupValues(a)[g] # 0
            THEN rendered = Join(GroupTexts(a, 0, 7), <<":">>)
            ELSE rendered = Join(GroupTexts(a, 0, run.first - 1), <<":">>)
                                \o <<":", ":">>
                                \o Join(GroupTexts(a, run.second + 1, 7), <<":">>)

\* groups lo..hi are a run of zero groups
ZeroRun(a, lo, hi) == lo <= hi /\ \A g \in lo..hi : GroupValues(a)[g] = 0

\* C23: the run of zero groups toString() compresses is a longest run of zero
\* groups, the earliest of the longest ones, be it a single group; there is
\* none only when no group is zero.
C23_LongestEarliestZeroRun ==
    IPv6Rendered =>
        LET a == parsed.address
            run == findLongestZeroSequence(a)
        IN  IF \A g \in 0..7 : GroupValues(a)[g] # 0
            THEN run.first = -1 /\ run.second = -1
            ELSE /\ 0 <= run.first /\ run.second <= 7
                 /\ ZeroRun(a, run.first, run.second)
                 /\ \A lo \in 0..7, hi \in 0..7 :
                        ZeroRun(a, lo, hi) =>
                            \/ hi - lo < run.second - run.first
                            \/ hi - lo = run.second - run.first /\ lo >= run.first

\* an address with two longest runs of zero groups was rendered
C23_Witness ==
    /\ IPv6Rendered
    /\ LET a == parsed.address
           run == findLongestZeroSequence(a)
       IN  /\ run.first >= 0
           /\ \E lo \in 0..7, hi \in 0..7 :
                 /\ lo > run.second
                 /\ ZeroRun(a, lo, hi)
                 /\ hi - lo = run.second - run.first

\* C30: constructing an IPv6Address from the toString() of an IPv6Address
\* succeeds and gives the same 16 bytes.
C30_IPv6RenderRoundTrip ==
    (textCall.family = "IPv6" /\ textCall.op = "reparse") =>
        /\ reparsed.result = "ok"
        /\ reparsed.address = parsed.address

----------------------------------------------------------------------------
(* Claims about sequences of segment calls *)

\* C26: whatever segment calls were made on a Network, its child list is the
\* list the last call that returned has computed: as many children as that
\* call's n, each of that call's new prefix length, and no other child.
C26_ChildListIsLastCalls ==
    kind # "none" =>
        /\ subnets = lastOk.subnets
        /\ Len(subnets) = lastOk.n
        /\ \A k \in 1..Len(subnets) : getPrefixLength(subnets[k]) = lastOk.newPrefixLength

\* a call failed after two calls that returned, the second on a list of children
C26_Witness ==
    /\ leaked
    /\ call.op = "segment"
    /\ result = "invalid_argument"
    /\ lastOk.n = 3
    /\ Len(subnets) = 3

\* C27: once a Network is destroyed, no child created by its segment calls
\* is left allocated, the children a later call dropped included.
C27_NoChildOutlivesParent == kind = "none" => ~leaked

\* C28: after a successful IPv6 segment(n) with new prefix length q the
\* increment vector has 16 bytes whose only set bit is the one of value
\* 2^(128 - q), and the i-th child's base, the parent's base with the vector
\* added i times, is the parent's base plus i * 2^(128 - q) in 16 bytes,
\* with no carry out of the most significant byte.
C28_IPv6IncrementSteps ==
    (Segmented /\ kind = "IPv6") =>
        LET increment == IPv6Increment(ChildPrefix)
        IN  /\ Len(increment) = IPV6_NUM_OCTETS
            /\ \A j \in 1..128 : BitsOf(increment)[j] = IF j = ChildPrefix THEN 1 ELSE 0
            /\ \A k \in 1..Len(subnets) :
                   /\ Len(subnets[k].ip) = IPV6_NUM_OCTETS
                   /\ subnets[k].ip = AddVectorTimes(net.ip, increment, k - 1)
                   /\ BitsOf(subnets[k].ip) = PlusShifted(net.ip, k - 1, 128 - ChildPrefix)
                   /\ ~Overflows(BitsOf(net.ip), NatBits(k - 1, 128 - ChildPrefix, 128))

\* segment(3) on a /61: the increment is bit 1 of byte 7
C28_Witness ==
    /\ Segmented
    /\ kind = "IPv6"
    /\ call.p = 61
    /\ call.n = 3
    /\ IPv6Increment(ChildPrefix)[8] = 2
    /\ Len(subnets) = 3

\* C29: a segment call that ends in invalid_argument changes neither the
\* child list nor the members of the Network.
C29_FailedSegmentChangesNothing ==
    [][(call'.op = "segment" /\ result' = "invalid_argument") =>
            (subnets' = subnets /\ net' = net /\ kind' = kind)]_vars

\* a call failed on a Network that has children
C29_Witness ==
    /\ call.op = "segment"
    /\ result = "invalid_argument"
    /\ Len(subnets) > 0

----------------------------------------------------------------------------
(* Claims about the capacity *)

\* C24: calculateCapacity(p) is 2^(32 - p) for p from 1 to 31 and 65536 for
\* p from 32 up, on an IPv4Address and on an IPv6Address alike. The value is
\* compared in 16-bit halves.
C24_CapacityValues ==
    capacity.family # "none" =>
        LET p == capacity.prefixLength
        IN  capacity.value =
                IF p >= 32 THEN [hi |-> 1, lo |-> 0]
                ELSE IF p <= 16 THEN [hi |-> 2 ^ (16 - p), lo |-> 0]
                ELSE [hi |-> 0, lo |-> 2 ^ (32 - p)]

\* an IPv6Address reports 65536 for a prefix length of 32
C24_Witness ==
    /\ capacity.family = "IPv6"
    /\ capacity.prefixLength = 32
    /\ capacity.value = [hi |-> 1, lo |-> 0]

----------------------------------------------------------------------------
(* Claims about the program *)

\* how many times the character c occurs in a text
Occurrences(str, c) == Cardinality({i \in 1..Len(str) : str[i] = c})

\* a text std::stoi reads a number from: optional spaces and sign, then a digit
ReadsAsNumber(str) ==
    \E k \in 1..Len(str) :
        /\ isdigit(str[k])
        /\ \A i \in 1..(k - 1) : str[i] = " " \/ (i = k - 1 /\ str[i] \in {"+", "-"})

\* C25: every run of the program ends with exit code 0 or 1; it ends with
\* exit code 1 and one line on standard error when it is not given exactly
\* two arguments, when the first argument does not hold exactly one "/", and
\* when the number of subnets is no number; it ends with exit code 0 only
\* with the report written.
C25_ExitZeroOrOne ==
    cli.status # "none" =>
        /\ cli.status \in {"exit 0", "exit 1"}
        /\ Len(cli.args) # 2 => (cli.status = "exit 1" /\ cli.diagnostics = 1)
        /\ (Len(cli.args) >= 1 /\ Occurrences(cli.args[1], "/") # 1) =>
               (cli.status = "exit 1" /\ cli.diagnostics = 1)
        /\ (Len(cli.args) >= 2 /\ ~ReadsAsNumber(cli.args[2])) =>
               (cli.status = "exit 1" /\ cli.diagnostics = 1)
        /\ cli.status = "exit 0" => cli.report

====
